---- MODULE Spec2Model ----
(***************************************************************************)
(* Session Streaming Coordinator of the PowerLift form-analysis backend,   *)
(* together with the real-time client screen that consumes its events.     *)
(*                                                                         *)
(* Server side, from the technical implementation document:                *)
(*   handle_frame     the 'analyze_frame' Socket.IO handler                *)
(*   analysis_worker  the worker thread that drains analysis_queue         *)
(* The start/stop handlers, the Session record and process_frame are not   *)
(* part of the sources at hand; they follow the design document (section   *)
(* 4.7 and 5) and are marked as such in the model map.                     *)
(*                                                                         *)
(* Client side, from app/realtime-analysis.tsx: the isAnalyzing flag and   *)
(* the socket listeners that the effect registers while isAnalyzing holds. *)
(*                                                                         *)
(* worker_thread is read as the module-level thread handle that the        *)
(* handler tests with is_alive() and replaces when it starts a worker.     *)
(*                                                                         *)
(* Further specifications over the same variables:                         *)
(*   RetrainSpec    the batch retraining path (retrain_mcsvm.py) as the    *)
(*                  retraining README describes it: criteria, backup,      *)
(*                  fit, promotion or rollback, start-up and manual runs   *)
(*   SwapSpec       the same next to a live classification                 *)
(*   FeedbackSpec   submitMcsvmFeedback / submitFormFeedback of the        *)
(*                  results screen and the feedback endpoint               *)
(*   DetectSpec     detect_repetitions applied to barbell series           *)
(*   SegmenterSpec  the Rep Segmenter of one session, frame by frame       *)
(* retrain_mcsvm.py, the feedback endpoint and the segmenter state machine *)
(* are not part of the sources at hand; what the README does not say about *)
(* them follows the design document.                                       *)
(***************************************************************************)
EXTENDS Integers, Sequences, FiniteSets, TLC

\* ------------------------------------------------------------------ bounds
\* Number of 'analyze_frame' messages the model lets arrive in one run.
MaxFrames == 2

\* The queue bound the design document asks for ("bounded queue"); the
\* handler in the sources never consults a bound.
QueueBound == 1

\* One session per live connection: session_id = request.sid.
Sessions == {"s1", "s2"}

\* Payload classes of an 'analyze_frame' message, by what handle_frame and
\* process_frame do with them:
\*   ok           'data:image...,<base64 of an image>'
\*   corrupt      passes the prefix test and decodes, but cv2.imdecode gives
\*                no image and process_frame raises on it
\*   malformed    empty, or not starting with 'data:image'
\*   undecodable  starts with 'data:image' but split(',')[1] or b64decode raise
FrameKinds == {"ok", "corrupt", "malformed", "undecodable"}

Statuses == <<"Idle", "Active", "Stopping", "Closed">>

NoItem == [sid |-> "none", id |-> 0, kind |-> "none"]

VARIABLES
    status,          \* Session lifecycle per session id
    buffer,          \* Signal Buffer per session: ids of the frames appended
    rep_state,       \* Rep Segmenter state per session: "Idle" or "InRep"
    rep_count,       \* completed repetitions per session
    score_history,   \* per session, the frame ids at which a rep was scored
    analysis_queue,  \* the shared work queue of (session_id, frame) tuples
    worker_thread,   \* worker_thread.is_alive()
    worker_pc,       \* position of analysis_worker in its loop
    cur,             \* the tuple the worker dequeued and is working on
    results,         \* the value process_frame returned, not yet emitted
    emitted,         \* per session (room), the events the server emitted
    stop_repeated,   \* per session, whether stop came again after the first stop
    next_id,         \* number of 'analyze_frame' messages received so far
    processed,       \* ids of the frames process_frame was called on
    isAnalyzing,     \* client: the isAnalyzing state of the screen
    client_seen,     \* client: number of server events already dispatched
    delivered,       \* client: frame ids whose analysis_result was handled
    user_feedback,   \* user_feedback.json: the list of stored FeedbackEntry records
    now,             \* wall clock of the backend host, in half days
    last_retraining, \* model_metadata.json: time of the last retraining, per exercise
    model_file,      \* models/<exercise>_form_classifier.pkl: the active ModelVersion
    backup_file,     \* models/<exercise>_backup.pkl: the backup ModelVersion
    retrain_run,     \* the run of the retraining path in progress, if any
    cls,             \* the live classification in progress, if any
    feedback_lock,   \* holder of the lock of the feedback store, or "free"
    request,         \* per results screen, its feedback request at the server
    fb_ui,           \* per results screen: feedbackSubmitted, submittingFeedback
    barbell_positions, \* the barbell y-coordinates handed to detect_repetitions
    reps,            \* what detect_repetitions returned for them
    last_rep,        \* what became of the Repetition the segmenter last worked on
    deductions,      \* what the scoring functions deduct for the repetition at hand
    scores,          \* the ScoreSet of the repetition scored last
    mcsvm_analysis,  \* the ClassificationResult derived from a ScoreSet
    prev_analysis,   \* the ClassificationResult produced before that one
    screen,          \* the capture screen that is open: "live" or "realtime"
    ui,              \* its React state: isAnalyzing, cameraReady
    rendered,        \* the state the closures of the last committed render hold
    pending,         \* timers set and awaits not yet resumed, with their closures
    socket,          \* the screen's socket: listener, messages in flight
    capture_log,     \* what the capture loop has done so far
    results_screen,  \* results screen: mcsvmAnalysis, feedback flags, taps so far
    posts,           \* the feedback requests it sent, each in flight or settled
    video_ui,        \* video screen: its React state
    jobs,            \* video screen: pickers, uploads, status requests, timers
    poll_log         \* video screen: analyses reset, what their polling did after

stream_vars == <<status, buffer, rep_state, rep_count, score_history,
                 analysis_queue, worker_thread, worker_pc, cur, results, emitted,
                 stop_repeated, next_id, processed, isAnalyzing, client_seen,
                 delivered>>

retrain_vars == <<user_feedback, now, last_retraining, model_file, backup_file,
                  retrain_run, cls>>

model_vars == <<now, last_retraining, model_file, backup_file, retrain_run, cls>>

feedback_vars == <<feedback_lock, request, fb_ui>>

rep_vars == <<barbell_positions, reps, last_rep>>

score_vars == <<deductions, scores, mcsvm_analysis, prev_analysis>>

capture_vars == <<screen, ui, rendered, pending, socket, capture_log>>

tap_vars == <<results_screen, posts>>

poll_vars == <<video_ui, jobs, poll_log>>

\* The results screen and the video screen.
screen_vars == <<tap_vars, poll_vars>>

\* Scorer, score-derived classifier and the screens of the client.
side_vars == <<score_vars, capture_vars, screen_vars>>

\* Everything outside the streaming coordinator and its client.
ext_vars == <<retrain_vars, feedback_vars, rep_vars, side_vars>>

\* Everything but the scorer and the capture screens.
core_vars == <<stream_vars, retrain_vars, feedback_vars, rep_vars, screen_vars>>

\* Everything but the results screen and the video screen.
base_vars == <<stream_vars, retrain_vars, feedback_vars, rep_vars, score_vars,
               capture_vars>>

vars == <<stream_vars, ext_vars>>

session_vars == <<buffer, rep_state, rep_count, score_history>>
worker_vars  == <<worker_thread, worker_pc, cur, results>>
client_vars  == <<isAnalyzing, client_seen, delivered>>

\* ----------------------------------------------------------------- helpers
Rank(st) == CHOOSE i \in 1..4 : Statuses[i] = st

Event(type, id) == [type |-> type, id |-> id]

Emit(s, ev) == [emitted EXCEPT ![s] = Append(@, ev)]

IsResult(ev) == ev.type = "analysis_result"
IsSummary(ev) == ev.type = "analysis_complete"
IsError(ev) == ev.type = "analysis_error"

ResultsOf(s) == SelectSeq(emitted[s], IsResult)
SummariesOf(s) == SelectSeq(emitted[s], IsSummary)
ErrorsOf(s) == SelectSeq(emitted[s], IsError)

\* The frame of session s that the worker has dequeued and not finished.
InFlight(s) == cur # NoItem /\ cur.sid = s

PendingOf(s) == Cardinality({i \in 1..Len(analysis_queue) : analysis_queue[i].sid = s})

SessionState(s) == <<buffer[s], rep_state[s], rep_count[s], score_history[s]>>

\* ------------------------------------------- retraining: data and constants
\* exercise_type of the feedback and of the models (deadlift, squat, bench);
\* two of the three types are enough to tell "this exercise" from "all".
Exercises == {"deadlift", "squat"}

\* self.min_feedback_total = 20
min_feedback_total == 20

\* self.min_feedback_per_exercise = 5
min_feedback_per_exercise == 5

\* self.retraining_interval_days = 1
retraining_interval_days == 1

\* Largest value of the clock (half days).
MaxTime == 3

\* Largest version number a retraining may produce.
MaxVersion == 3

\* last_retraining of an exercise that was never retrained.
Never == -1

\* A ModelVersion file: the pickled scaler and classifier of one fit.
ModelVersion(v) == [version |-> v, scaler |-> v, svm |-> v]

NoModel == ModelVersion(0)

NoRun == [pc |-> "idle", ex |-> "none", forced |-> FALSE, eligible |-> FALSE,
          started_with |-> NoModel, candidate |-> NoModel]

NoCls == [pc |-> "idle", ex |-> "none", model |-> NoModel, scaler |-> 0,
          svm |-> 0, swapped |-> FALSE]

\* A stored FeedbackEntry as the retraining path reads it.
StoredEntry(ex, n) ==
    [exercise_type |-> ex, predicted_form |-> "Good", correct_form |-> "Poor",
     confidence_score |-> "0.9", frame_features |-> "real50",
     analysis_id |-> "a0", timestamp |-> 0, id |-> n]

\* The results screens that can send feedback, one per analysis.
Clients == {"c1", "c2"}

\* JavaScript undefined and null, Python None.
Undefined == "undefined"
Null == "null"
None == "None"

NoRequest == [pc |-> "none", data |-> <<>>, body |-> <<>>, loaded |-> <<>>,
              overlapped |-> FALSE]

\* The result of detect_repetitions before it ran.
NotRun == [outcome |-> "pending", reps |-> <<>>]

\* No ScoreSet computed yet, no ClassificationResult produced yet.
NoDeductions == [exercise_type |-> "none"]

NoScores == [exercise_type |-> "none"]

NoAnalysis == [classification |-> "none"]

\* The socket of a capture screen before any analysis: no 'analysis_complete'
\* listener, nothing sent, nothing on its way to the client.
NoTraffic == [listening |-> FALSE, stop_sent |-> FALSE, inbox |-> <<>>]

\* Counters and observations of the capture loop, all at rest.
NothingCaptured ==
    [camera_events |-> 0, starts |-> 0, pictures |-> 0,
     captured |-> FALSE, delays |-> {}, after_stop |-> {}, complete |-> "none"]

\* user_feedback.json holding a entries for deadlift followed by b for squat.
Prefill(a, b) ==
    [i \in 1..(a + b) |-> StoredEntry(IF i <= a THEN "deadlift" ELSE "squat", i)]

\* -------------------------------------------------------------------- Init
\* The streaming coordinator and its client before the first connection.
StreamInit ==
    /\ status = [s \in Sessions |-> "Idle"]
    /\ buffer = [s \in Sessions |-> <<>>]
    /\ rep_state = [s \in Sessions |-> "Idle"]
    /\ rep_count = [s \in Sessions |-> 0]
    /\ score_history = [s \in Sessions |-> <<>>]
    /\ analysis_queue = <<>>
    /\ worker_thread = FALSE
    /\ worker_pc = "top"
    /\ cur = NoItem
    /\ results = NoItem
    /\ emitted = [s \in Sessions |-> <<>>]
    /\ stop_repeated = [s \in Sessions |-> FALSE]
    /\ next_id = 0
    /\ processed = {}
    /\ isAnalyzing = [s \in Sessions |-> FALSE]
    /\ client_seen = [s \in Sessions |-> 0]
    /\ delivered = [s \in Sessions |-> <<>>]

\* A fresh installation: no feedback yet, version 1 of every model active,
\* no backup, nothing in progress.
RetrainIdle ==
    /\ user_feedback = <<>>
    /\ now = 0
    /\ last_retraining = [e \in Exercises |-> Never]
    /\ model_file = [e \in Exercises |-> ModelVersion(1)]
    /\ backup_file = [e \in Exercises |-> NoModel]
    /\ retrain_run = NoRun
    /\ cls = NoCls

\* No feedback request under way.
FeedbackIdle ==
    /\ feedback_lock = "free"
    /\ request = [c \in Clients |-> NoRequest]
    /\ fb_ui = [c \in Clients |->
                  [feedbackSubmitted |-> FALSE, submittingFeedback |-> FALSE]]

\* No series handed to the repetition detector.
RepIdle ==
    /\ barbell_positions = <<>>
    /\ reps = NotRun
    /\ last_rep = "none"

\* Nothing scored or classified yet.
ScoreIdle ==
    /\ deductions = NoDeductions
    /\ scores = NoScores
    /\ mcsvm_analysis = NoAnalysis
    /\ prev_analysis = NoAnalysis

\* The "live" screen just opened: nothing rendered but the initial state.
CaptureIdle ==
    /\ screen = "live"
    /\ ui = [isAnalyzing |-> FALSE, cameraReady |-> FALSE]
    /\ rendered = [isAnalyzing |-> FALSE, cameraReady |-> FALSE]
    /\ pending = {}
    /\ socket = NoTraffic
    /\ capture_log = NothingCaptured

\* The results screen as it mounts: feedback neither sent nor under way.
NoFeedbackYet(analysis) ==
    [mcsvmAnalysis |-> analysis, feedbackSubmitted |-> FALSE,
     submittingFeedback |-> FALSE, taps |-> 0]

\* The state of the video screen as it mounts, and as resetAnalysis leaves it.
NoVideo ==
    [videoUri |-> Null, analysisState |-> "idle", analysisId |-> Null,
     analysisData |-> [status |-> Null], noBarbellDetected |-> FALSE,
     wrongExerciseDetected |-> FALSE, detectedExerciseType |-> Null]

NothingPolled ==
    [picks |-> 0, uploads |-> 0, resets |-> 0, replaced |-> FALSE,
     was_reset |-> {}, late_effect |-> {}, late_request |-> {}]

\* The results screen and the video screen not in use.
ScreenIdle ==
    /\ results_screen = NoFeedbackYet(NoAnalysis)
    /\ posts = <<>>
    /\ video_ui = NoVideo
    /\ jobs = {}
    /\ poll_log = NothingPolled

SideIdle == ScoreIdle /\ CaptureIdle /\ ScreenIdle

Init == StreamInit /\ RetrainIdle /\ FeedbackIdle /\ RepIdle /\ SideIdle

\* ------------------------------------------------- session control (design)
\* Variant: a Closed session may be started again.
StartAllowed_Restart(st) == st \in {"Idle", "Closed"}

\* start(exercise_type): only an Idle session becomes Active; it gets a
\* fresh Session record and Signal Buffer.
StartAllowed(st) == st = "Idle"

\* Variant: stop begins to stop whatever the status is.
StopTarget_Unguarded(st) == "Stopping"

\* stop(session_id): only an Active session starts to stop; on a session
\* that is already stopping or closed the call changes nothing and raises
\* nothing.  A connection that never started a session has nothing to stop.
StopTarget(st) == IF st = "Active" THEN "Stopping" ELSE st

\* Variant: stop does not wait for the worker.
Drained_NoWait(s) == TRUE

\* stop waits for the frame of this session that the worker holds.
Drained(s) == ~InFlight(s)

start(s) ==
    /\ StartAllowed(status[s])
    /\ status' = [status EXCEPT ![s] = "Active"]
    /\ buffer' = [buffer EXCEPT ![s] = <<>>]
    /\ rep_state' = [rep_state EXCEPT ![s] = "Idle"]
    /\ rep_count' = [rep_count EXCEPT ![s] = 0]
    /\ score_history' = [score_history EXCEPT ![s] = <<>>]
    /\ UNCHANGED <<analysis_queue, worker_vars, emitted, stop_repeated, next_id,
                   processed, client_vars>>
    /\ UNCHANGED ext_vars

stop(s) ==
    /\ status[s] # "Idle"
    /\ stop_repeated' = [stop_repeated EXCEPT ![s] = @ \/ status[s] # "Active"]
    /\ status' = [status EXCEPT ![s] = StopTarget(@)]
    /\ UNCHANGED <<session_vars, analysis_queue, worker_vars, emitted,
                   next_id, processed, client_vars>>
    /\ UNCHANGED ext_vars

stop_finish(s) ==
    /\ status[s] = "Stopping"
    /\ Drained(s)
    /\ emitted' = Emit(s, Event("analysis_complete", rep_count[s]))
    /\ status' = [status EXCEPT ![s] = "Closed"]
    /\ UNCHANGED <<session_vars, analysis_queue, worker_vars, stop_repeated,
                   next_id, processed, client_vars>>
    /\ UNCHANGED ext_vars

\* ------------------------------------------------------------ handle_frame
\* not frame_data or not frame_data.startswith('data:image')
InvalidFrameData(kind) == kind = "malformed"

\* frame_data.split(',')[1], base64.b64decode: raise inside the try block
DecodeRaises(kind) == kind = "undecodable"

\* analysis_queue.put((session_id, frame))
put(q, item) == Append(q, item)

handle_frame(s, kind) ==
    /\ next_id < MaxFrames
    /\ next_id' = next_id + 1
    /\ IF InvalidFrameData(kind) \/ DecodeRaises(kind)
       THEN /\ emitted' = Emit(s, Event("analysis_error", next_id + 1))
            /\ UNCHANGED <<analysis_queue, worker_thread, worker_pc>>
       ELSE /\ analysis_queue' =
                 put(analysis_queue, [sid |-> s, id |-> next_id + 1, kind |-> kind])
            /\ worker_thread' = TRUE
            /\ worker_pc' = IF worker_thread THEN worker_pc ELSE "top"
            /\ UNCHANGED emitted
    /\ UNCHANGED <<status, session_vars, cur, results, stop_repeated, processed,
                   client_vars>>
    /\ UNCHANGED ext_vars

\* ----------------------------------------------------------- process_frame
\* Landmark extraction fails on a frame that did not decode to an image.
ProcessRaises(item) == item.kind = "corrupt"

\* What the Rep Segmenter sees in a frame: nothing, a movement past the
\* thresholds, or the timeout of the repetition in progress running out.
RepEvents == {"none", "move", "timeout"}

\* Rep Segmenter step: a movement starts a repetition from Idle and
\* completes it from InRep; the timeout ends the repetition in progress.
RepNext(st, ev) ==
    IF ev = "move" THEN (IF st = "Idle" THEN "InRep" ELSE "Idle")
    ELSE IF ev = "timeout" THEN "Idle"
    ELSE st

\* Variant: a repetition that timed out is completed like any other.
RepCompleted_OnTimeout(st, ev) == st = "InRep" /\ ev \in {"move", "timeout"}

RepCompleted(st, ev) == ev = "move" /\ st = "InRep"

\* What became of the Repetition the step worked on.
RepOutcome(st, ev) ==
    IF st = "InRep" /\ ev = "timeout" THEN "discarded"
    ELSE IF st = "InRep" /\ ev = "move" THEN "completed"
    ELSE IF st = "Idle" /\ ev = "move" THEN "started"
    ELSE "none"

\* Variant: a discarded repetition is taken off the count.
CountAfter_DropsDiscarded(n, st, ev) ==
    IF RepCompleted(st, ev) THEN n + 1
    ELSE IF RepOutcome(st, ev) = "discarded" /\ n > 0 THEN n - 1
    ELSE n

\* The rep count after a step: one more for a completed repetition.
CountAfter(n, st, ev) == IF RepCompleted(st, ev) THEN n + 1 ELSE n

\* process_frame(frame, session_id): buffer append, segmentation check,
\* scoring of a completed repetition; touches the state of session sid only.
process_frame(sid, id, ev) ==
    /\ buffer' = [buffer EXCEPT ![sid] = Append(@, id)]
    /\ rep_state' = [rep_state EXCEPT ![sid] = RepNext(@, ev)]
    /\ rep_count' = [rep_count EXCEPT ![sid] = CountAfter(@, rep_state[sid], ev)]
    /\ score_history' = [score_history EXCEPT ![sid] =
                        IF RepCompleted(rep_state[sid], ev) THEN Append(@, id) ELSE @]

\* --------------------------------------------------------- analysis_worker
\* Variant: the worker takes the newest tuple instead of the oldest.
get_lifo(q) == [item |-> q[Len(q)], rest |-> SubSeq(q, 1, Len(q) - 1)]

\* session_id, frame = analysis_queue.get(timeout=1.0)
get(q) == [item |-> Head(q), rest |-> Tail(q)]

\* Variant: the worker uses the session of the latest request, not the one
\* dequeued with the frame.
WorkerSession_LastSender(item) ==
    IF analysis_queue # <<>> THEN analysis_queue[Len(analysis_queue)].sid ELSE item.sid

\* The session the worker hands to process_frame and emits to: the one
\* dequeued together with the frame.
WorkerSession(item) == item.sid

\* Variant: an exception in process_frame ends the worker thread.
AliveAfterException_Dies == FALSE

\* except Exception: print, traceback; the while-loop goes on.
AliveAfterException == TRUE

\* while True: print("Waiting for frame ...")
worker_loop ==
    /\ worker_thread
    /\ worker_pc = "top"
    /\ worker_pc' = "get"
    /\ UNCHANGED <<status, session_vars, analysis_queue, worker_thread, cur,
                   results, emitted, stop_repeated, next_id, processed,
                   client_vars>>
    /\ UNCHANGED ext_vars

\* except queue.Empty: continue
worker_timeout ==
    /\ worker_thread
    /\ worker_pc = "get"
    /\ analysis_queue = <<>>
    /\ worker_pc' = "top"
    /\ UNCHANGED <<status, session_vars, analysis_queue, worker_thread, cur,
                   results, emitted, stop_repeated, next_id, processed,
                   client_vars>>
    /\ UNCHANGED ext_vars

worker_get ==
    /\ worker_thread
    /\ worker_pc = "get"
    /\ analysis_queue # <<>>
    /\ cur' = get(analysis_queue).item
    /\ analysis_queue' = get(analysis_queue).rest
    /\ worker_pc' = "process"
    /\ UNCHANGED <<status, session_vars, worker_thread, results, emitted,
                   stop_repeated, next_id, processed, client_vars>>
    /\ UNCHANGED ext_vars

\* results = process_frame(frame, session_id), or the except Exception arm
worker_process ==
    /\ worker_thread
    /\ worker_pc = "process"
    /\ processed' = processed \cup {cur.id}
    /\ IF ProcessRaises(cur)
       THEN /\ worker_pc' = "top"
            /\ worker_thread' = AliveAfterException
            /\ cur' = NoItem
            /\ UNCHANGED <<session_vars, results>>
       ELSE /\ \E ev \in RepEvents :
                 process_frame(WorkerSession(cur), cur.id, ev)
            /\ results' = [sid |-> WorkerSession(cur), id |-> cur.id, kind |-> cur.kind]
            /\ worker_pc' = "emit"
            /\ UNCHANGED <<worker_thread, cur>>
    /\ UNCHANGED <<status, analysis_queue, emitted, stop_repeated, next_id,
                   client_vars>>
    /\ UNCHANGED ext_vars

\* socketio.emit('analysis_result', results, room=session_id); task_done()
worker_emit ==
    /\ worker_thread
    /\ worker_pc = "emit"
    /\ emitted' = Emit(results.sid, Event("analysis_result", results.id))
    /\ cur' = NoItem
    /\ results' = NoItem
    /\ worker_pc' = "top"
    /\ UNCHANGED <<status, session_vars, analysis_queue, worker_thread,
                   stop_repeated, next_id, processed, client_vars>>
    /\ UNCHANGED ext_vars

analysis_worker ==
    worker_loop \/ worker_timeout \/ worker_get \/ worker_process \/ worker_emit

\* ------------------------------------------- client: realtime-analysis.tsx
\* The effect registers the four listeners only while isAnalyzing holds and
\* its cleanup removes them when isAnalyzing changes.
ListenersRegistered(s) == isAnalyzing[s]

\* socketRef.current.on('analysis_error', ...): setIsAnalyzing(false)
AnalyzingAfterError(a) == FALSE

\* startAnalysis and stopAnalysis set the flag; the 'start_analysis' and
\* 'stop_analysis' messages they emit reach the server as its start and stop
\* operations, which the model lets happen at any time.
startAnalysis(s) ==
    /\ ~isAnalyzing[s]
    /\ isAnalyzing' = [isAnalyzing EXCEPT ![s] = TRUE]
    /\ UNCHANGED <<status, session_vars, analysis_queue, worker_vars, emitted,
                   stop_repeated, next_id, processed, client_seen, delivered>>
    /\ UNCHANGED ext_vars

stopAnalysis(s) ==
    /\ isAnalyzing[s]
    /\ isAnalyzing' = [isAnalyzing EXCEPT ![s] = FALSE]
    /\ UNCHANGED <<status, session_vars, analysis_queue, worker_vars, emitted,
                   stop_repeated, next_id, processed, client_seen, delivered>>
    /\ UNCHANGED ext_vars

\* The socket dispatches the next server event to the listener registered
\* for it, if any.
client_receive(s) ==
    /\ client_seen[s] < Len(emitted[s])
    /\ client_seen' = [client_seen EXCEPT ![s] = @ + 1]
    /\ LET ev == emitted[s][client_seen[s] + 1] IN
       IF ~ListenersRegistered(s)
       THEN UNCHANGED <<isAnalyzing, delivered>>
       ELSE CASE IsResult(ev) ->
                   /\ delivered' = [delivered EXCEPT ![s] = Append(@, ev.id)]
                   /\ UNCHANGED isAnalyzing
              [] IsError(ev) ->
                   /\ isAnalyzing' = [isAnalyzing EXCEPT ![s] = AnalyzingAfterError(@)]
                   /\ UNCHANGED delivered
              [] OTHER ->
                   /\ isAnalyzing' = [isAnalyzing EXCEPT ![s] = FALSE]
                   /\ UNCHANGED delivered
    /\ UNCHANGED <<status, session_vars, analysis_queue, worker_vars, emitted,
                   stop_repeated, next_id, processed>>
    /\ UNCHANGED ext_vars

\* ------------------------------------------ retraining: retrain_mcsvm.py
\* Feedback entries of one exercise type in user_feedback.json.
CountFor(ex) ==
    Cardinality({i \in 1..Len(user_feedback) : user_feedback[i].exercise_type = ex})

\* (datetime.now() - last_retraining).days; the clock counts half days.
DaysSince(t) == (now - t) \div 2

\* "Time interval: at least 1 day since last retraining"; an exercise that
\* was never retrained has no interval to wait for.
CooldownOver(ex) ==
    \/ last_retraining[ex] = Never
    \/ DaysSince(last_retraining[ex]) >= retraining_interval_days

\* Variant: the per-exercise minimum is not looked at.
evaluate_retraining_NoPerExercise(ex) ==
    IF Len(user_feedback) < min_feedback_total THEN FALSE
    ELSE CooldownOver(ex)

\* The retraining criteria, in the order of the console messages:
\* "Insufficient feedback", "Recent retraining", then the per-exercise
\* minimum, "Retraining needed".
evaluate_retraining(ex) ==
    IF Len(user_feedback) < min_feedback_total THEN FALSE
    ELSE IF ~CooldownOver(ex) THEN FALSE
    ELSE CountFor(ex) >= min_feedback_per_exercise

\* Variant: every run retrains.
RetrainAllowed_Always(forced, eligible) == TRUE

\* Start-up retrains when the criteria are met; `python retrain_mcsvm.py`
\* forces retraining regardless of criteria.
RetrainAllowed(forced, eligible) == forced \/ eligible

\* Variant: no backup is taken.
backup_models_None(ex) == backup_file

\* "Backup creation before each retraining": the current model file is
\* copied to the backup file.
backup_models(ex) == [backup_file EXCEPT ![ex] = model_file[ex]]

\* Variant: the rollback installs what the failed run produced.
restore_backup_Candidate(ex) == [model_file EXCEPT ![ex] = retrain_run.candidate]

\* "Automatic rollback if retraining fails": the model file is restored
\* from the backup file.
restore_backup(ex) == [model_file EXCEPT ![ex] = backup_file[ex]]

RunOver == retrain_run.pc \in {"idle", "skipped", "done", "failed"}

tick ==
    /\ now < MaxTime
    /\ now' = now + 1
    /\ UNCHANGED <<user_feedback, last_retraining, model_file, backup_file,
                   retrain_run, cls>>
    /\ UNCHANGED <<stream_vars, feedback_vars, rep_vars>>
    /\ UNCHANGED side_vars

\* A run of the retraining path for one exercise begins by evaluating the
\* criteria.
retrain_start(ex, forced) ==
    /\ RunOver
    /\ model_file[ex].version < MaxVersion
    /\ retrain_run' = [pc |-> "checked", ex |-> ex, forced |-> forced,
                       eligible |-> evaluate_retraining(ex),
                       started_with |-> model_file[ex], candidate |-> NoModel]
    /\ UNCHANGED <<user_feedback, now, last_retraining, model_file, backup_file, cls>>
    /\ UNCHANGED <<stream_vars, feedback_vars, rep_vars>>
    /\ UNCHANGED side_vars

\* run_api.py: the backend checks for retraining on startup.
startup_retrain(ex) == retrain_start(ex, FALSE)

\* python retrain_mcsvm.py
manual_retrain(ex) == retrain_start(ex, TRUE)

\* "Insufficient feedback" / "Recent retraining, skipping"
retrain_skip ==
    /\ retrain_run.pc = "checked"
    /\ ~RetrainAllowed(retrain_run.forced, retrain_run.eligible)
    /\ retrain_run' = [retrain_run EXCEPT !.pc = "skipped"]
    /\ UNCHANGED <<user_feedback, now, last_retraining, model_file, backup_file, cls>>
    /\ UNCHANGED <<stream_vars, feedback_vars, rep_vars>>
    /\ UNCHANGED side_vars

\* "Retraining needed": backup, then fit.
retrain_backup ==
    /\ retrain_run.pc = "checked"
    /\ RetrainAllowed(retrain_run.forced, retrain_run.eligible)
    /\ backup_file' = backup_models(retrain_run.ex)
    /\ retrain_run' = [retrain_run EXCEPT !.pc = "fit"]
    /\ UNCHANGED <<user_feedback, now, last_retraining, model_file, cls>>
    /\ UNCHANGED <<stream_vars, feedback_vars, rep_vars>>
    /\ UNCHANGED side_vars

\* Fit a new classifier on synthetic plus feedback data; the fit may raise.
retrain_fit(outcome) ==
    /\ retrain_run.pc = "fit"
    /\ retrain_run' =
          IF outcome = "ok"
          THEN [retrain_run EXCEPT !.pc = "validate",
                   !.candidate = ModelVersion(model_file[retrain_run.ex].version + 1)]
          ELSE [retrain_run EXCEPT !.pc = "rollback"]
    /\ UNCHANGED <<user_feedback, now, last_retraining, model_file, backup_file, cls>>
    /\ UNCHANGED <<stream_vars, feedback_vars, rep_vars>>
    /\ UNCHANGED side_vars

\* The new model must load and give finite scores on a held-out sample.
retrain_validate(outcome) ==
    /\ retrain_run.pc = "validate"
    /\ retrain_run' = [retrain_run EXCEPT
                          !.pc = IF outcome = "ok" THEN "promote" ELSE "rollback"]
    /\ UNCHANGED <<user_feedback, now, last_retraining, model_file, backup_file, cls>>
    /\ UNCHANGED <<stream_vars, feedback_vars, rep_vars>>
    /\ UNCHANGED side_vars

\* "New .pkl files replace old ones"; the metadata records the retraining.
retrain_promote ==
    /\ retrain_run.pc = "promote"
    /\ model_file' = [model_file EXCEPT ![retrain_run.ex] = retrain_run.candidate]
    /\ last_retraining' = [last_retraining EXCEPT ![retrain_run.ex] = now]
    /\ retrain_run' = [retrain_run EXCEPT !.pc = "done"]
    /\ cls' = IF cls.pc = "scaled" /\ cls.ex = retrain_run.ex
              THEN [cls EXCEPT !.swapped = TRUE] ELSE cls
    /\ UNCHANGED <<user_feedback, now, backup_file>>
    /\ UNCHANGED <<stream_vars, feedback_vars, rep_vars>>
    /\ UNCHANGED side_vars

retrain_rollback ==
    /\ retrain_run.pc = "rollback"
    /\ model_file' = restore_backup(retrain_run.ex)
    /\ retrain_run' = [retrain_run EXCEPT !.pc = "failed"]
    /\ UNCHANGED <<user_feedback, now, last_retraining, backup_file, cls>>
    /\ UNCHANGED <<stream_vars, feedback_vars, rep_vars>>
    /\ UNCHANGED side_vars

\* ------------------------------------------------------ live classification
\* Variant: the prediction reads the active model again.
ModelAtPredict_Reread(c) == model_file[c.ex]

\* A classification works on the ModelVersion it took at its start.
ModelAtPredict(c) == c.model

\* The classification takes the active ModelVersion and scales the features.
classify_begin(ex) ==
    /\ cls.pc \in {"idle", "done"}
    /\ cls' = [pc |-> "scaled", ex |-> ex, model |-> model_file[ex],
               scaler |-> model_file[ex].scaler, svm |-> 0, swapped |-> FALSE]
    /\ UNCHANGED <<user_feedback, now, last_retraining, model_file, backup_file,
                   retrain_run>>
    /\ UNCHANGED <<stream_vars, feedback_vars, rep_vars>>
    /\ UNCHANGED side_vars

\* The classifier of the model predicts the label from the scaled features.
classify_predict ==
    /\ cls.pc = "scaled"
    /\ cls' = [cls EXCEPT !.pc = "done", !.svm = ModelAtPredict(cls).svm]
    /\ UNCHANGED <<user_feedback, now, last_retraining, model_file, backup_file,
                   retrain_run>>
    /\ UNCHANGED <<stream_vars, feedback_vars, rep_vars>>
    /\ UNCHANGED side_vars

\* ------------------------------------------------- feedback: results screen
\* The MCSVM analysis shown on a results screen: complete, without
\* confidence and features, or with a feature vector of the wrong length.
mcsvmAnalyses ==
    {[classification |-> "Good", confidence |-> "0.9", features |-> "real50"],
     [classification |-> "Poor", confidence |-> Undefined, features |-> Undefined],
     [classification |-> "Needs Improvement", confidence |-> "0.6",
      features |-> "short"]}

\* The three form classes.
Labels == {"Good", "Needs Improvement", "Poor"}

\* exerciseType and analysisId of a results screen (its route parameters).
ExerciseOf(c) == IF c = "c1" THEN "deadlift" ELSE "squat"

AnalysisIdOf(c) == IF c = "c1" THEN "a1" ELSE "a2"

\* The operands for which JavaScript's a || b gives b.
Falsy(v) == v \in {Undefined, Null, ""}

\* const feedbackData = {...} of submitMcsvmFeedback
feedbackData(c, analysis, isCorrect, correctForm) ==
    [exercise_type |-> ExerciseOf(c),
     predicted_form |-> analysis.classification,
     is_correct |-> isCorrect,
     correct_form |-> IF Falsy(correctForm) THEN analysis.classification
                      ELSE correctForm,
     frame_features |-> IF Falsy(analysis.features) THEN "zeros50"
                        ELSE analysis.features,
     confidence_score |-> analysis.confidence,
     analysis_id |-> AnalysisIdOf(c)]

\* Variant: the confidence goes out under a camel-case key.
PostBody_CamelCase(d) ==
    [k \in ({f \in DOMAIN d : d[f] # Undefined} \ {"confidence_score"})
             \cup {"confidenceScore"} |->
        IF k = "confidenceScore" THEN d["confidence_score"] ELSE d[k]]

\* api.post('/feedback/form-classification', feedbackData): the JSON body
\* has the keys of the object whose value is not undefined.
PostBody(d) == [k \in {f \in DOMAIN d : d[f] # Undefined} |-> d[k]]

\* ------------------------------------------------- feedback: submit_feedback
\* data.get(key)
Get(body, k) == IF k \in DOMAIN body THEN body[k] ELSE None

\* submit_feedback validates the feature vector length and the label set.
ValidFeedback(body) ==
    /\ Get(body, "frame_features") \in {"real50", "zeros50"}
    /\ Get(body, "predicted_form") \in Labels
    /\ Get(body, "correct_form") \in Labels

\* The FeedbackEntry the server makes of a request, with the timestamp and
\* the id it assigns.
FeedbackEntry(body, ts, n) ==
    [exercise_type |-> Get(body, "exercise_type"),
     predicted_form |-> Get(body, "predicted_form"),
     correct_form |-> Get(body, "correct_form"),
     confidence_score |-> Get(body, "confidence_score"),
     frame_features |-> Get(body, "frame_features"),
     analysis_id |-> Get(body, "analysis_id"),
     timestamp |-> ts, id |-> n]

\* Variant: the store is read and written without the lock.
LockFree_Ignored(c) == TRUE

\* The feedback store is appended to under a lock.
LockFree(c) == feedback_lock = "free"

\* submitMcsvmFeedback(isCorrect, correctForm) on the results screen of c
submitMcsvmFeedback(c, analysis, isCorrect, correctForm) ==
    /\ ~fb_ui[c].feedbackSubmitted
    /\ ~fb_ui[c].submittingFeedback
    /\ fb_ui' = [fb_ui EXCEPT ![c].submittingFeedback = TRUE]
    /\ LET d == feedbackData(c, analysis, isCorrect, correctForm) IN
       request' = [request EXCEPT ![c] =
                     [pc |-> "sent", data |-> d, body |-> PostBody(d),
                      loaded |-> <<>>,
                      overlapped |-> \E o \in Clients \ {c} :
                                        request[o].pc \in {"sent", "loaded"}]]
    /\ UNCHANGED <<user_feedback, model_vars, feedback_lock, stream_vars, rep_vars>>
    /\ UNCHANGED side_vars

\* A malformed entry is rejected with a typed error.
submit_feedback_reject(c) ==
    /\ request[c].pc = "sent"
    /\ ~ValidFeedback(request[c].body)
    /\ request' = [request EXCEPT ![c].pc = "rejected"]
    /\ UNCHANGED <<user_feedback, model_vars, feedback_lock, fb_ui, stream_vars,
                   rep_vars>>
    /\ UNCHANGED side_vars

\* The handler takes the lock and reads user_feedback.json.
submit_feedback_load(c) ==
    /\ request[c].pc = "sent"
    /\ ValidFeedback(request[c].body)
    /\ LockFree(c)
    /\ feedback_lock' = c
    /\ request' = [request EXCEPT ![c].pc = "loaded", ![c].loaded = user_feedback]
    /\ UNCHANGED <<user_feedback, model_vars, fb_ui, stream_vars, rep_vars>>
    /\ UNCHANGED side_vars

\* It appends the entry, writes the file and releases the lock.
submit_feedback_store(c) ==
    /\ request[c].pc = "loaded"
    /\ user_feedback' =
          Append(request[c].loaded,
                 FeedbackEntry(request[c].body, now, Len(request[c].loaded) + 1))
    /\ feedback_lock' = "free"
    /\ request' = [request EXCEPT ![c].pc = "stored"]
    /\ UNCHANGED <<model_vars, fb_ui, stream_vars, rep_vars>>
    /\ UNCHANGED side_vars

\* await PowerLiftAPI.submitFormFeedback(feedbackData) returns or throws;
\* finally setSubmittingFeedback(false).
feedback_response(c) ==
    /\ request[c].pc \in {"stored", "rejected"}
    /\ request' = [request EXCEPT ![c].pc =
                      IF request[c].pc = "stored" THEN "acked" ELSE "failed"]
    /\ fb_ui' = [fb_ui EXCEPT ![c] =
                   [feedbackSubmitted |-> request[c].pc = "stored",
                    submittingFeedback |-> FALSE]]
    /\ UNCHANGED <<user_feedback, model_vars, feedback_lock, stream_vars, rep_vars>>
    /\ UNCHANGED side_vars

\* ------------------------------------------------------ detect_repetitions
\* threshold=0.1, with the positions counted in steps of 0.05
threshold == 2

\* savgol_filter(..., window_length=11, polyorder=2)
window_length == 11

\* The least-squares fit of a parabola to 11 equidistant samples, evaluated
\* at each of the 11 places: row r, times the samples, divided by SavgolDen.
\* Row 6 is the filter itself, (-36 9 44 69 84 89 84 69 44 9 -36) / 429.
SavgolRows ==
    << <<1245, 810, 450, 165, -45, -180, -240, -225, -135, 30, 270>>,
       <<810, 597, 414, 261, 138, 45, -18, -51, -54, -27, 30>>,
       <<450, 414, 373, 327, 276, 220, 159, 93, 22, -54, -135>>,
       <<165, 261, 327, 363, 369, 345, 291, 207, 93, -51, -225>>,
       <<-45, 138, 276, 369, 417, 420, 378, 291, 159, -18, -240>>,
       <<-180, 45, 220, 345, 420, 445, 420, 345, 220, 45, -180>>,
       <<-240, -18, 159, 291, 378, 420, 417, 369, 276, 138, -45>>,
       <<-225, -51, 93, 207, 291, 345, 369, 363, 327, 261, 165>>,
       <<-135, -54, 22, 93, 159, 220, 276, 327, 373, 414, 450>>,
       <<30, -27, -54, -51, -18, 45, 138, 261, 414, 597, 810>>,
       <<270, 30, -135, -225, -240, -180, -45, 165, 450, 810, 1245>> >>

SavgolDen == 2145

RECURSIVE Dot(_, _, _)
Dot(a, b, k) == IF k = 0 THEN 0 ELSE a[k] * b[k] + Dot(a, b, k - 1)

\* savgol_filter(x, window_length=11, polyorder=2), mode 'interp': the
\* first and the last five values come from the parabola fitted to the
\* first and the last eleven samples, the others from the filter.  The
\* values are kept as integers, SavgolDen times the smoothed value.
savgol_filter(x) ==
    LET n == Len(x)
        half == window_length \div 2
    IN [i \in 1..n |->
           LET row == IF i <= half THEN i
                      ELSE IF i > n - half THEN window_length - (n - i)
                      ELSE half + 1
               first == IF i <= half THEN 1
                        ELSE IF i > n - half THEN n - window_length + 1
                        ELSE i - half
           IN Dot(SavgolRows[row], SubSeq(x, first, first + window_length - 1),
                  window_length)]

Negated(x) == [i \in 1..Len(x) |-> 0 - x[i]]

RECURSIVE MinOver(_, _, _)
MinOver(x, lo, hi) ==
    IF lo = hi THEN x[lo]
    ELSE LET m == MinOver(x, lo + 1, hi) IN IF x[lo] < m THEN x[lo] ELSE m

\* The local maxima find_peaks starts from: the middle of every run of
\* equal samples whose two neighbours are lower; a run that touches the
\* first or the last sample is no peak.
LocalMaxima(x) ==
    {(l + r) \div 2 : <<l, r>> \in
        {lr \in (2..(Len(x) - 1)) \X (2..(Len(x) - 1)) :
            /\ lr[1] <= lr[2]
            /\ \A k \in lr[1]..lr[2] : x[k] = x[lr[1]]
            /\ x[lr[1] - 1] < x[lr[1]]
            /\ x[lr[2] + 1] < x[lr[2]]}}

\* peak_prominences: the peak above the higher of the two lowest samples
\* between it and the next higher sample (or the end) on either side.
Prominence(x, p) ==
    LET higherLeft == {j \in 1..(p - 1) : x[j] > x[p]}
        higherRight == {j \in (p + 1)..Len(x) : x[j] > x[p]}
        lo == IF higherLeft = {} THEN 1
              ELSE CHOOSE j \in higherLeft : \A o \in higherLeft : o <= j
        hi == IF higherRight = {} THEN Len(x)
              ELSE CHOOSE j \in higherRight : \A o \in higherRight : o >= j
        leftMin == MinOver(x, IF higherLeft = {} THEN lo ELSE lo + 1, p)
        rightMin == MinOver(x, p, IF higherRight = {} THEN hi ELSE hi - 1)
    IN x[p] - (IF leftMin > rightMin THEN leftMin ELSE rightMin)

RECURSIVE Ascending(_)
Ascending(S) ==
    IF S = {} THEN <<>>
    ELSE LET m == CHOOSE a \in S : \A b \in S : a <= b
         IN <<m>> \o Ascending(S \ {m})

\* find_peaks(x, prominence=p): the indices of the local maxima whose
\* prominence is at least p, in ascending order.
find_peaks(x, p) == Ascending({i \in LocalMaxima(x) : Prominence(x, i) >= p})

\* max(peaks_between, key=lambda p: smoothed[p]): the first of the highest
first_max(cands, smoothed) ==
    LET best == {c \in 1..Len(cands) :
                    \A o \in 1..Len(cands) : smoothed[cands[o]] <= smoothed[cands[c]]}
    IN cands[CHOOSE c \in best : \A o \in best : c <= o]

RECURSIVE pair_reps(_, _, _, _)
pair_reps(valleys, peaks, smoothed, i) ==
    IF i >= Len(valleys) THEN <<>>
    ELSE LET IsBetween(q) == valleys[i] < q /\ q < valleys[i + 1]
             peaks_between == SelectSeq(peaks, IsBetween)
             rest == pair_reps(valleys, peaks, smoothed, i + 1)
         IN IF peaks_between # <<>>
            THEN <<[start |-> valleys[i],
                    peak |-> first_max(peaks_between, smoothed),
                    end |-> valleys[i + 1]]>> \o rest
            ELSE rest

\* detect_repetitions(barbell_positions, threshold): savgol_filter raises
\* ValueError on fewer samples than window_length.
detect_repetitions(positions, thr) ==
    IF Len(positions) < window_length
    THEN [outcome |-> "raises", reps |-> <<>>]
    ELSE LET smoothed == savgol_filter(positions)
             peaks == find_peaks(smoothed, thr * SavgolDen)
             valleys == find_peaks(Negated(smoothed), thr * SavgolDen)
         IN [outcome |-> "returned",
             reps |-> pair_reps(valleys, peaks, smoothed, 1)]

\* The Rep Segmenter runs the detector on the series it was given.
run_detect ==
    /\ reps.outcome = "pending"
    /\ reps' = detect_repetitions(barbell_positions, threshold)
    /\ UNCHANGED <<barbell_positions, last_rep, stream_vars, retrain_vars,
                   feedback_vars>>
    /\ UNCHANGED side_vars

\* ------------------------------------------------------------ specification
Next ==
    \/ \E s \in Sessions : start(s)
    \/ \E s \in Sessions : stop(s)
    \/ \E s \in Sessions : stop_finish(s)
    \/ \E s \in Sessions, kind \in FrameKinds : handle_frame(s, kind)
    \/ worker_loop
    \/ worker_timeout
    \/ worker_get
    \/ worker_process
    \/ worker_emit

Spec == Init /\ [][Next]_vars

\* The worker is a thread the scheduler keeps running, and the stop handler
\* completes once its wait is over.
FairSpec ==
    /\ Spec
    /\ WF_vars(analysis_worker)
    /\ \A s \in Sessions : WF_vars(stop_finish(s))

\* The connection whose client screen is modelled next to the server.
ClientSessions == {"s1"}

ClientNext ==
    \/ \E s \in ClientSessions : start(s)
    \/ \E s \in ClientSessions : stop(s)
    \/ \E s \in ClientSessions : stop_finish(s)
    \/ \E s \in ClientSessions, kind \in FrameKinds : handle_frame(s, kind)
    \/ worker_loop
    \/ worker_timeout
    \/ worker_get
    \/ worker_process
    \/ worker_emit
    \/ \E s \in ClientSessions : startAnalysis(s)
    \/ \E s \in ClientSessions : stopAnalysis(s)
    \/ \E s \in ClientSessions : client_receive(s)

ClientSpec == Init /\ [][ClientNext]_vars

\* ---------------------------------------------- retraining specification
\* Numbers of stored entries per exercise found in user_feedback.json when
\* the backend starts: around the per-exercise and the total minimum.
PrefillCounts == {4, 5, 15, 16}

RetrainInit ==
    /\ StreamInit
    /\ \E a \in PrefillCounts, b \in PrefillCounts : user_feedback = Prefill(a, b)
    /\ now = 0
    /\ last_retraining = [e \in Exercises |-> Never]
    /\ model_file = [e \in Exercises |-> ModelVersion(1)]
    /\ backup_file = [e \in Exercises |-> NoModel]
    /\ retrain_run = NoRun
    /\ cls = NoCls
    /\ FeedbackIdle
    /\ RepIdle
    /\ SideIdle

RetrainNext ==
    \/ tick
    \/ \E ex \in Exercises : startup_retrain(ex)
    \/ \E ex \in Exercises : manual_retrain(ex)
    \/ retrain_skip
    \/ retrain_backup
    \/ \E outcome \in {"ok", "fit_error"} : retrain_fit(outcome)
    \/ \E outcome \in {"ok", "invalid"} : retrain_validate(outcome)
    \/ retrain_promote
    \/ retrain_rollback

RetrainSpec == RetrainInit /\ [][RetrainNext]_vars

\* The retraining path next to a backend that classifies: the store holds
\* enough feedback for both exercises.
SwapInit ==
    /\ StreamInit
    /\ user_feedback = Prefill(5, 15)
    /\ now = 0
    /\ last_retraining = [e \in Exercises |-> Never]
    /\ model_file = [e \in Exercises |-> ModelVersion(1)]
    /\ backup_file = [e \in Exercises |-> NoModel]
    /\ retrain_run = NoRun
    /\ cls = NoCls
    /\ FeedbackIdle
    /\ RepIdle
    /\ SideIdle

SwapNext ==
    \/ tick
    \/ \E ex \in Exercises : startup_retrain(ex)
    \/ \E ex \in Exercises : manual_retrain(ex)
    \/ retrain_skip
    \/ retrain_backup
    \/ \E outcome \in {"ok", "fit_error"} : retrain_fit(outcome)
    \/ \E outcome \in {"ok", "invalid"} : retrain_validate(outcome)
    \/ retrain_promote
    \/ retrain_rollback
    \/ \E ex \in Exercises : classify_begin(ex)
    \/ classify_predict

SwapSpec == SwapInit /\ [][SwapNext]_vars

\* ------------------------------------------------ feedback specification
\* Two results screens next to a store that already holds two entries.
FeedbackInit ==
    /\ StreamInit
    /\ user_feedback = Prefill(1, 1)
    /\ now = 0
    /\ last_retraining = [e \in Exercises |-> Never]
    /\ model_file = [e \in Exercises |-> ModelVersion(1)]
    /\ backup_file = [e \in Exercises |-> NoModel]
    /\ retrain_run = NoRun
    /\ cls = NoCls
    /\ FeedbackIdle
    /\ RepIdle
    /\ SideIdle

FeedbackNext ==
    \/ \E c \in Clients, analysis \in mcsvmAnalyses, isCorrect \in {"true", "false"},
          correctForm \in {Undefined, "", "Poor"} :
             submitMcsvmFeedback(c, analysis, isCorrect, correctForm)
    \/ \E c \in Clients : submit_feedback_reject(c)
    \/ \E c \in Clients : submit_feedback_load(c)
    \/ \E c \in Clients : submit_feedback_store(c)
    \/ \E c \in Clients : feedback_response(c)

FeedbackSpec == FeedbackInit /\ [][FeedbackNext]_vars

\* ------------------------------------------ repetition detector specification
\* Number of samples of the series that are long enough to be smoothed.
SeriesLen == 13

\* Height of the raised samples over the resting ones, in steps of 0.05:
\* below the threshold, at the threshold, twenty times the threshold.
Amplitudes == {1, 2, 40}

\* Every series of resting and raised samples, of SeriesLen samples or of
\* one sample less than the smoothing window.
DetectInit ==
    /\ StreamInit
    /\ RetrainIdle
    /\ FeedbackIdle
    /\ SideIdle
    /\ \E n \in {window_length - 1, SeriesLen}, a \in Amplitudes :
          \E raised \in SUBSET (1..n) :
             barbell_positions = [i \in 1..n |-> IF i \in raised THEN a ELSE 0]
    /\ reps = NotRun
    /\ last_rep = "none"

DetectNext == run_detect

DetectSpec == DetectInit /\ [][DetectNext]_vars

\* ------------------------------------------------ segmenter specification
\* Number of frames of the session the segmenter is followed over.
MaxSegFrames == 8

\* The session whose frames the segmenter works through, in order.
SegSession == "s1"

\* One frame of the session goes through process_frame.
segment_frame(ev) ==
    /\ Len(buffer[SegSession]) < MaxSegFrames
    /\ process_frame(SegSession, Len(buffer[SegSession]) + 1, ev)
    /\ last_rep' = RepOutcome(rep_state[SegSession], ev)
    /\ UNCHANGED <<status, analysis_queue, worker_vars, emitted, stop_repeated,
                   next_id, processed, client_vars>>
    /\ UNCHANGED <<retrain_vars, feedback_vars, barbell_positions, reps>>
    /\ UNCHANGED side_vars

SegmenterNext == \E ev \in RepEvents : segment_frame(ev)

SegmenterSpec == Init /\ [][SegmenterNext]_vars

\* ------------------------------------------------------ biomechanical scorer
\* Scores are in points (0..100).  An overall score is kept in hundredths of a
\* point (0..10000), and a weight in hundredths, so that a weighted sum of
\* whole-point components is exact.
ExerciseTypes == {"deadlift", "squat", "bench"}

\* The deductions the scoring functions are followed over: what is taken off
\* base_score = 100 for the angles, deviations and asymmetries of one
\* repetition.
Deductions == {0, 5, 10, 20, 40, 60}

\* The knee deductions grow with the knee angles and can add up to more than
\* 100; 120 stands for those.
KneeDeductions == Deductions \cup {120}

\* return max(0, min(100, base_score)) at the end of every scoring function.
component_score(deduction) ==
    LET base_score == 100 - deduction
        capped == IF base_score < 100 THEN base_score ELSE 100
    IN  IF capped > 0 THEN capped ELSE 0

weights_Uniform(exercise_type) ==
    [knee |-> 25, spine |-> 25, hip |-> 25, bar_path |-> 25]

\* The weights table of calculate_overall_score, with its default branch.
weights(exercise_type) ==
    IF exercise_type = "deadlift"
       THEN [knee |-> 20, spine |-> 35, hip |-> 25, bar_path |-> 20]
    ELSE IF exercise_type = "squat"
       THEN [knee |-> 30, spine |-> 25, hip |-> 25, bar_path |-> 20]
    ELSE IF exercise_type = "bench"
       THEN [knee |-> 10, spine |-> 20, hip |-> 20, bar_path |-> 50]
    ELSE [knee |-> 25, spine |-> 25, hip |-> 25, bar_path |-> 25]

calculate_overall_score(knee_score, spine_score, hip_score, bar_path_score, exercise_type) ==
    LET w == weights(exercise_type)
        overall_score == knee_score * w.knee + spine_score * w.spine
                         + hip_score * w.hip + bar_path_score * w.bar_path
        capped == IF overall_score < 10000 THEN overall_score ELSE 10000
    IN  IF capped > 0 THEN capped ELSE 0

\* The 'scores' dictionary of one repetition.
ScoreSet(exercise_type, dk, ds, dh, db) ==
    [exercise_type       |-> exercise_type,
     knee_alignment      |-> component_score(dk),
     spine_alignment     |-> component_score(ds),
     hip_stability       |-> component_score(dh),
     bar_path_efficiency |-> component_score(db),
     overall             |-> calculate_overall_score(
                                component_score(dk), component_score(ds),
                                component_score(dh), component_score(db),
                                exercise_type)]

\* The repetition at hand is scored.
score_rep ==
    /\ deductions /= NoDeductions
    /\ scores = NoScores
    /\ scores' = ScoreSet(deductions.exercise_type, deductions.knee,
                          deductions.spine, deductions.hip, deductions.bar_path)
    /\ UNCHANGED <<deductions, mcsvm_analysis, prev_analysis>>
    /\ UNCHANGED <<core_vars, capture_vars>>

\* ----------------------------------------------- score-derived classifier
\* generate_score_based_mcsvm_analysis(exercise_type, scores) as the MCSVM
\* integration document describes it.  Confidence and probabilities are in
\* percent.

\* The form categories with the score each starts at and its confidence range.
ScoreBands ==
    <<[label |-> "Good",              from |-> 8500, upto |-> 10000,
       conf_lo |-> 80, conf_hi |-> 95],
      [label |-> "Needs Improvement", from |-> 7000, upto |-> 8500,
       conf_lo |-> 70, conf_hi |-> 85],
      [label |-> "Poor",              from |-> 0,    upto |-> 7000,
       conf_lo |-> 65, conf_hi |-> 80]>>

\* "Small random adjustments": what one call may add to the confidence.
Jitter == {-1, 0, 1}

\* "Calculates overall performance score by averaging available individual
\* scores": the mean of the four component scores, in hundredths.
average(sc) ==
    (100 * (sc.knee_alignment + sc.spine_alignment + sc.hip_stability
            + sc.bar_path_efficiency)) \div 4

\* "Maps scores to form categories".
band_of(overall_score) ==
    IF overall_score >= ScoreBands[1].from THEN ScoreBands[1]
    ELSE IF overall_score >= ScoreBands[2].from THEN ScoreBands[2]
    ELSE ScoreBands[3]

\* "Higher scores receive higher classification confidence": within the
\* band's range the confidence rises with the score.
base_confidence(overall_score) ==
    LET b == band_of(overall_score)
    IN  b.conf_lo + ((overall_score - b.from) * (b.conf_hi - b.conf_lo))
                    \div (b.upto - b.from)

\* The adjusted confidence stays within the range of its category.
confidence_of(overall_score, jitter) ==
    LET b == band_of(overall_score)
        c == base_confidence(overall_score) + jitter
    IN  IF c < b.conf_lo THEN b.conf_lo
        ELSE IF c > b.conf_hi THEN b.conf_hi
        ELSE c

probabilities_of_Truncated(label, confidence) ==
    LET rest == 100 - confidence
    IN  [l \in Labels |->
           IF l = label THEN confidence
           ELSE IF label = "Needs Improvement" THEN rest \div 2
           ELSE IF l = "Needs Improvement" THEN 3 * (rest \div 4)
           ELSE rest \div 4]

\* The chosen label gets the confidence; of the rest, a label next to the
\* chosen one gets more than the label two classes away (0.87 / 0.10 / 0.03).
probabilities_of(label, confidence) ==
    LET rest == 100 - confidence
    IN  [l \in Labels |->
           IF l = label THEN confidence
           ELSE IF label = "Needs Improvement"
                THEN (IF l = "Good" THEN rest \div 2 ELSE rest - rest \div 2)
           ELSE IF l = "Needs Improvement" THEN rest - rest \div 4
           ELSE rest \div 4]

generate_score_based_mcsvm_analysis(exercise_type, sc, jitter) ==
    LET overall_score == average(sc)
        classification == band_of(overall_score).label
        confidence == confidence_of(overall_score, jitter)
    IN  [classification |-> classification,
         confidence     |-> confidence,
         probabilities  |-> probabilities_of(classification, confidence),
         score_based    |-> TRUE,
         overall_score  |-> overall_score]

\* The video processor classifies the repetition it has scored.
classify_rep(jitter) ==
    /\ scores /= NoScores
    /\ mcsvm_analysis = NoAnalysis
    /\ mcsvm_analysis' = generate_score_based_mcsvm_analysis(
                             scores.exercise_type, scores, jitter)
    /\ UNCHANGED <<deductions, scores, prev_analysis>>
    /\ UNCHANGED <<core_vars, capture_vars>>

\* One repetition after the other is scored and classified.
score_and_classify(exercise_type, dk, ds, dh, db, jitter) ==
    /\ scores' = ScoreSet(exercise_type, dk, ds, dh, db)
    /\ mcsvm_analysis' = generate_score_based_mcsvm_analysis(
                             exercise_type, scores', jitter)
    /\ prev_analysis' = mcsvm_analysis
    /\ UNCHANGED deductions
    /\ UNCHANGED <<core_vars, capture_vars>>

\* ------------------------------------------------ scoring specifications
\* One repetition of every exercise with every combination of deductions.
ScoreInit ==
    /\ StreamInit
    /\ RetrainIdle
    /\ FeedbackIdle
    /\ RepIdle
    /\ \E ex \in ExerciseTypes, dk \in KneeDeductions, ds \in Deductions,
          dh \in Deductions, db \in Deductions :
             deductions = [exercise_type |-> ex, knee |-> dk, spine |-> ds,
                           hip |-> dh, bar_path |-> db]
    /\ scores = NoScores
    /\ mcsvm_analysis = NoAnalysis
    /\ prev_analysis = NoAnalysis
    /\ CaptureIdle
    /\ ScreenIdle

ScoreNext ==
    \/ score_rep
    \/ \E j \in Jitter : classify_rep(j)

ScoreSpec == ScoreInit /\ [][ScoreNext]_vars

\* Deadlift repetitions in a row: knee and spine faultless, slightly off or
\* clearly off, hip and bar path faultless or slightly off.
SeriesDeductions == {0, 5, 40}

SlightDeductions == {0, 5}

SeriesNext ==
    \E dk \in SeriesDeductions, ds \in SeriesDeductions,
       dh \in SlightDeductions, db \in SlightDeductions, j \in Jitter :
          score_and_classify("deadlift", dk, ds, dh, db, j)

SeriesSpec == Init /\ [][SeriesNext]_vars

\* -------------------------------------------------- capture screens (client)
\* app/live.tsx and app/realtime-analysis.tsx.  A function of the screen reads
\* isAnalyzing and cameraReady from the render it was created in; a timer or
\* an await keeps the function, and with it these values, until it runs.
Screens == {"live", "realtime"}

TARGET_FPS(scr) == IF scr = "live" THEN 5 ELSE 6

FRAME_INTERVAL(scr) == 1000 \div TARGET_FPS(scr)

\* The delay sendImageForAnalysis hands to setTimeout for the next capture.
NextCaptureDelay(scr) == IF scr = "live" THEN FRAME_INTERVAL(scr) ELSE 1000

\* Pictures taken, starts of an analysis and camera-ready events in one run.
MaxPictures == 2

MaxStarts == 2

MaxCameraReady == 2

\* A timer or a suspended call: the function to run, the delay it was set
\* with, the values of its closure, and whether it dates from before a stop.
Task(fn, delay, closure, stale) ==
    [fn |-> fn, delay |-> delay, isAnalyzing |-> closure.isAnalyzing,
     cameraReady |-> closure.cameraReady, stale |-> stale]

CaptureFns == {"captureAndAnalyzeFrame", "takePictureAsync"}

\* The guards at the head of captureAndAnalyzeFrame (the camera ref is set
\* once the camera view is mounted).
CaptureEntry(t) ==
    IF ~t.isAnalyzing THEN "skip"
    ELSE IF ~t.cameraReady THEN "retry"
    ELSE "picture"

\* What a callback that dates from before a stop has gone on to do.
Noted(t, what) == IF t.stale THEN capture_log.after_stop \cup what
                  ELSE capture_log.after_stop

\* onCameraReady of the camera view.
onCameraReady ==
    /\ capture_log.camera_events < MaxCameraReady
    /\ ui' = [ui EXCEPT !.cameraReady = TRUE]
    /\ pending' = IF rendered.isAnalyzing
                  THEN pending \cup {Task("captureAndAnalyzeFrame", 500, rendered, FALSE)}
                  ELSE pending
    /\ capture_log' = [capture_log EXCEPT !.camera_events = @ + 1]
    /\ UNCHANGED <<screen, rendered, socket>>
    /\ UNCHANGED <<core_vars, score_vars>>

\* React commits the state: new closures, and the effects whose dependencies
\* changed run.  realtime-analysis.tsx registers the socket listeners while
\* isAnalyzing and removes them in the cleanup; live.tsx calls
\* captureAndAnalyzeFrame when isAnalyzing and cameraReady hold.
render ==
    /\ rendered /= ui
    /\ rendered' = ui
    /\ socket' = IF screen = "realtime"
                 THEN [socket EXCEPT !.listening = ui.isAnalyzing]
                 ELSE socket
    /\ pending' = IF screen = "live" /\ ui.isAnalyzing /\ ui.cameraReady
                  THEN pending \cup {Task("captureAndAnalyzeFrame", 0, ui, FALSE)}
                  ELSE pending
    /\ UNCHANGED <<screen, ui, capture_log>>
    /\ UNCHANGED <<core_vars, score_vars>>

\* The Start button: the guards, setIsAnalyzing(true), then the 100 ms wait.
startAnalysis_screen ==
    /\ ~rendered.isAnalyzing
    /\ rendered.cameraReady
    /\ capture_log.starts < MaxStarts
    /\ ui' = [ui EXCEPT !.isAnalyzing = TRUE]
    /\ pending' = pending \cup {Task("startAnalysis", 100, rendered, FALSE)}
    /\ capture_log' = [capture_log EXCEPT !.starts = @ + 1, !.captured = FALSE]
    /\ UNCHANGED <<screen, rendered, socket>>
    /\ UNCHANGED <<core_vars, score_vars>>

\* startAnalysis after the wait: 'start_analysis' is emitted; then
\* realtime-analysis.tsx calls captureAndAnalyzeFrame() of its own render,
\* live.tsx sets the timer that stops the analysis after 30 seconds.
startAnalysis_resume(t) ==
    /\ t \in pending
    /\ t.fn = "startAnalysis"
    /\ pending' =
         IF screen = "realtime"
         THEN (pending \ {t}) \cup
              (IF CaptureEntry(t) = "skip" THEN {}
               ELSE {Task("captureAndAnalyzeFrame", 0, t, FALSE)})
         ELSE {u \in pending \ {t} : u.fn /= "stopAnalysis"}
              \cup {Task("stopAnalysis", 30000, t, FALSE)}
    /\ UNCHANGED <<screen, ui, rendered, socket, capture_log>>
    /\ UNCHANGED <<core_vars, score_vars>>

\* The body of stopAnalysis: 'stop_analysis' is emitted, setIsAnalyzing(false),
\* live.tsx clears its 30 second timer.  Timers of captureAndAnalyzeFrame are
\* not cleared; the model marks them as dating from before the stop.
Stopped ==
    /\ socket' = [socket EXCEPT !.stop_sent = TRUE]
    /\ ui' = [ui EXCEPT !.isAnalyzing = FALSE]
    /\ pending' = {[u EXCEPT !.stale = TRUE] :
                     u \in {v \in pending : v.fn \in CaptureFns}}
                  \cup {v \in pending : v.fn = "startAnalysis"}
                  \cup {v \in pending : v.fn = "stopAnalysis" /\ screen /= "live"}
    /\ UNCHANGED <<screen, rendered, capture_log>>
    /\ UNCHANGED <<core_vars, score_vars>>

\* The Stop button, shown while the render has isAnalyzing.
stopAnalysis_screen ==
    /\ rendered.isAnalyzing
    /\ Stopped

\* live.tsx: the 30 second timer runs stopAnalysis.
auto_stop(t) ==
    /\ t \in pending
    /\ t.fn = "stopAnalysis"
    /\ Stopped

\* A timer runs captureAndAnalyzeFrame: it returns, retries in 500 ms, or
\* starts takePictureAsync.
capture_fire(t) ==
    /\ t \in pending
    /\ t.fn = "captureAndAnalyzeFrame"
    /\ CASE CaptureEntry(t) = "skip" ->
              /\ pending' = pending \ {t}
              /\ UNCHANGED capture_log
         [] CaptureEntry(t) = "retry" ->
              /\ pending' = (pending \ {t})
                            \cup {Task("captureAndAnalyzeFrame", 500, t, t.stale)}
              /\ capture_log' = [capture_log EXCEPT
                                   !.after_stop = Noted(t, {"schedule"})]
         [] OTHER ->
              /\ capture_log.pictures < MaxPictures
              /\ pending' = (pending \ {t})
                            \cup {Task("takePictureAsync", 0, t, t.stale)}
              /\ capture_log' = [capture_log EXCEPT
                                   !.pictures = @ + 1,
                                   !.captured = TRUE,
                                   !.after_stop = Noted(t, {"picture"})]
    /\ UNCHANGED <<screen, ui, rendered, socket>>
    /\ UNCHANGED <<core_vars, score_vars>>

\* takePictureAsync settles.  "photo": sendImageForAnalysis emits the frame
\* and sets the timer of the next capture.  "error": the catch block sets the
\* timer.  "empty": sendImageForAnalysis returns at its first guard.
capture_send(t, outcome) ==
    /\ t \in pending
    /\ t.fn = "takePictureAsync"
    /\ CASE outcome = "photo" /\ t.isAnalyzing ->
              /\ pending' = (pending \ {t}) \cup
                    {Task("captureAndAnalyzeFrame", NextCaptureDelay(screen),
                          t, t.stale)}
              /\ capture_log' = [capture_log EXCEPT
                    !.delays = @ \cup {NextCaptureDelay(screen)},
                    !.after_stop = Noted(t, {"frame", "schedule"})]
         [] outcome = "error" /\ t.isAnalyzing ->
              /\ pending' = (pending \ {t}) \cup
                    {Task("captureAndAnalyzeFrame", NextCaptureDelay(screen),
                          t, t.stale)}
              /\ capture_log' = [capture_log EXCEPT
                    !.after_stop = Noted(t, {"schedule"})]
         [] OTHER ->
              /\ pending' = pending \ {t}
              /\ UNCHANGED capture_log
    /\ UNCHANGED <<screen, ui, rendered, socket>>
    /\ UNCHANGED <<core_vars, score_vars>>

\* The server's stop handler answers 'stop_analysis' with the final summary.
server_stop ==
    /\ socket.stop_sent
    /\ socket.inbox = <<>>
    /\ socket' = [socket EXCEPT !.stop_sent = FALSE,
                                !.inbox = <<"analysis_complete">>]
    /\ UNCHANGED <<screen, ui, rendered, pending, capture_log>>
    /\ UNCHANGED <<core_vars, score_vars>>

\* 'analysis_complete' arrives: the socket runs the listener registered for
\* it, which calls setIsAnalyzing(false), or has none to run.
client_dispatch ==
    /\ socket.inbox /= <<>>
    /\ socket' = [socket EXCEPT !.inbox = Tail(@)]
    /\ IF socket.listening
       THEN /\ ui' = [ui EXCEPT !.isAnalyzing = FALSE]
            /\ capture_log' = [capture_log EXCEPT !.complete = "handled"]
       ELSE /\ UNCHANGED ui
            /\ capture_log' = [capture_log EXCEPT !.complete = "dropped"]
    /\ UNCHANGED <<screen, rendered, pending>>
    /\ UNCHANGED <<core_vars, score_vars>>

\* --------------------------------------------------- capture specification
CaptureInit ==
    /\ StreamInit
    /\ RetrainIdle
    /\ FeedbackIdle
    /\ RepIdle
    /\ ScoreIdle
    /\ screen \in Screens
    /\ ui = [isAnalyzing |-> FALSE, cameraReady |-> FALSE]
    /\ rendered = [isAnalyzing |-> FALSE, cameraReady |-> FALSE]
    /\ pending = {}
    /\ socket = NoTraffic
    /\ capture_log = NothingCaptured
    /\ ScreenIdle

CaptureNext ==
    \/ onCameraReady
    \/ render
    \/ startAnalysis_screen
    \/ \E t \in pending : startAnalysis_resume(t)
    \/ stopAnalysis_screen
    \/ \E t \in pending : auto_stop(t)
    \/ \E t \in pending : capture_fire(t)
    \/ \E t \in pending, outcome \in {"photo", "error", "empty"} :
          capture_send(t, outcome)
    \/ server_stop
    \/ client_dispatch

CaptureSpec == CaptureInit /\ [][CaptureNext]_vars

TypeOK ==
    /\ \A s \in Sessions : status[s] \in {"Idle", "Active", "Stopping", "Closed"}
    /\ worker_pc \in {"top", "get", "process", "emit"}
    /\ next_id \in 0..MaxFrames

\* ================================================================== claims
InQueue(id) == \E i \in 1..Len(analysis_queue) : analysis_queue[i].id = id

Buffered(id) == \E s \in Sessions : \E i \in 1..Len(buffer[s]) : buffer[s][i] = id

\* C1: over any sequence of start, frame and stop operations, at most one
\* final summary (analysis_complete) is ever emitted per session, also when
\* stop is called again on a session that was already stopped.
C1_AtMostOneSummary == \A s \in Sessions : Len(SummariesOf(s)) <= 1

C1_Witness ==
    \E s \in Sessions :
        stop_repeated[s] /\ status[s] = "Closed" /\ Len(SummariesOf(s)) = 1

\* C2: no per-frame result (analysis_result) is emitted for a session once
\* its status is Stopping or Closed.
C2_NoResultOnceStopping ==
    [][\A s \in Sessions :
          status[s] \in {"Stopping", "Closed"}
              => Len(ResultsOf(s))' = Len(ResultsOf(s))]_vars

\* C3: the number of pending frames never exceeds the queue bound (a full
\* queue drops its oldest frame when a new one is ingested).
C3_QueueBounded == Len(analysis_queue) <= QueueBound

\* C4: for each session, results are emitted in the order in which its
\* frames were enqueued (frame ids grow in arrival order).
C4_ResultsInOrder ==
    \A s \in Sessions :
        \A i, j \in 1..Len(ResultsOf(s)) :
            i < j => ResultsOf(s)[i].id < ResultsOf(s)[j].id

C4_Witness == \E s \in Sessions : Len(ResultsOf(s)) >= 2

\* C5: the processing of a frame of one session leaves the buffer,
\* repetition state, rep count and score history of every other session
\* unchanged, whatever frames of other sessions are queued around it.
C5_OnlyOwnSession ==
    [][(worker_pc = "process" /\ worker_pc' # "process")
          => \A s \in Sessions :
                 s # cur.sid => SessionState(s)' = SessionState(s)]_vars

C5_Witness ==
    \E s, t \in Sessions : s # t /\ Len(buffer[s]) > 0 /\ Len(buffer[t]) > 0

\* C6: a session's status only moves forward along Idle, Active, Stopping,
\* Closed; in particular a Closed session never becomes Active again.
C6_StatusForward ==
    [][\A s \in Sessions : Rank(status'[s]) >= Rank(status[s])]_vars

C6_Witness == \E s \in Sessions : status[s] = "Closed" /\ stop_repeated[s]

\* C7: the final summary of a session is emitted only when no frame of the
\* session is in flight, in the step that moves the session from Stopping to
\* Closed, and every session that is stopping eventually reaches Closed.
C7_StopDrainsThenCloses ==
    /\ [][\A s \in Sessions :
             Len(SummariesOf(s))' # Len(SummariesOf(s))
                 => (~InFlight(s) /\ status[s] = "Stopping" /\ status'[s] = "Closed")]_vars
    /\ [](\A s \in Sessions : status[s] = "Closed" => Len(SummariesOf(s)) >= 1)
    /\ \A s \in Sessions : (status[s] = "Stopping") ~> (status[s] = "Closed")

C7_Witness == \E s \in Sessions : status[s] = "Stopping" /\ InFlight(s)

\* C8: a frame that arrives for a session after stop is discarded: it is
\* not put on the queue (so it is neither analysed nor answered).
C8_LateFrameDiscarded ==
    [][\A s \in Sessions :
          status[s] \in {"Stopping", "Closed"} => PendingOf(s)' <= PendingOf(s)]_vars

\* C9: a malformed frame is answered with a validation error, leaves the
\* session's state and the queue unchanged, and does not end the stream:
\* the client that handles the error keeps analysing.
C9_ErrorKeepsStream ==
    [][\A s \in ClientSessions :
          /\ Len(ErrorsOf(s))' # Len(ErrorsOf(s))
                => (SessionState(s)' = SessionState(s) /\ analysis_queue' = analysis_queue)
          /\ (/\ client_seen'[s] # client_seen[s]
              /\ IsError(emitted[s][client_seen[s] + 1])
              /\ isAnalyzing[s])
                => isAnalyzing'[s]]_vars

\* C10: once started the worker thread stays alive, through dequeue timeouts
\* and failing frames alike, and every frame that was put on the queue is
\* eventually dequeued and handed to process_frame.
C10_WorkerNeverStops ==
    /\ [][worker_thread => worker_thread']_vars
    /\ \A id \in 1..MaxFrames : InQueue(id) ~> (id \in processed)

C10_Witness ==
    /\ worker_thread
    /\ \E a, b \in processed : a < b /\ ~Buffered(a) /\ Buffered(b)

\* The three eligibility conditions as the design document states them:
\* at least 20 entries in all, at least 5 for the exercise, and at least one
\* day (two half days) since the exercise was last retrained.
EligibleByCriteria(ex) ==
    /\ Len(user_feedback) >= 20
    /\ Len(SelectSeq(user_feedback, LAMBDA e : e.exercise_type = ex)) >= 5
    /\ (last_retraining[ex] = Never \/ now - last_retraining[ex] >= 2)

C13_FailureKeepsActive ==
    retrain_run.pc \in {"fit", "validate", "rollback", "failed"}
        => model_file[retrain_run.ex] = retrain_run.started_with

C13_Witness ==
    /\ retrain_run.pc = "failed"
    /\ retrain_run.candidate # NoModel

C15_NoMixedModel ==
    cls.pc = "done"
        => /\ cls.scaler = cls.svm
           /\ cls.scaler \in {cls.model.version, model_file[cls.ex].version}

C15_Witness ==
    /\ cls.pc = "done"
    /\ cls.swapped

\* The entries of the store that came from the results screen c.
EntriesOf(c) ==
    {i \in 1..Len(user_feedback) : user_feedback[i].analysis_id = AnalysisIdOf(c)}

\* C16: the feedback store is append-only (what it holds stays, unchanged
\* and in place), and every accepted submission, also one that overlapped
\* with another, is in the store exactly once.
C16_AppendOnlyExactlyOnce ==
    /\ [][/\ Len(user_feedback') >= Len(user_feedback)
          /\ SubSeq(user_feedback', 1, Len(user_feedback)) = user_feedback]_vars
    /\ [](\A c \in Clients :
             request[c].pc \in {"stored", "acked"} => Cardinality(EntriesOf(c)) = 1)

C16_Witness ==
    /\ \A c \in Clients : request[c].pc \in {"stored", "acked"}
    /\ \E c \in Clients : request[c].overlapped
    /\ Len(user_feedback) = 4

\* A field of the submitted object and of the stored entry agree; a field
\* the client left undefined is the one the store holds as None.
SameField(sent, stored) == stored = (IF sent = Undefined THEN None ELSE sent)

Raised(x) == {i \in 1..Len(x) : x[i] > 0}

\* One clean cycle: rest, one stretch of raised samples, rest.
OneCycle(x) ==
    /\ Raised(x) # {}
    /\ \A i \in Raised(x), j \in Raised(x) : \A k \in i..j : k \in Raised(x)
    /\ 1 \notin Raised(x)
    /\ Len(x) \notin Raised(x)

\* C19: the detector returns exactly one repetition for a series, long
\* enough to be smoothed, with one rest, raise, rest cycle whose
\* displacement is at least twice the threshold and that stays raised for
\* three samples or more; and none for
\* a series that moves less than the threshold, or whose every raise lasts
\* a single sample.
C19_OneCycleOneRep ==
    reps.outcome # "pending" =>
        /\ (/\ Len(barbell_positions) >= window_length
            /\ OneCycle(barbell_positions)
            /\ Cardinality(Raised(barbell_positions)) >= 3
            /\ \A i \in Raised(barbell_positions) :
                  barbell_positions[i] >= 2 * threshold)
              => (reps.outcome = "returned" /\ Len(reps.reps) = 1)
        /\ (\A i \in Raised(barbell_positions) : barbell_positions[i] < threshold)
              => Len(reps.reps) = 0
        /\ (\A i \in Raised(barbell_positions) :
               (i - 1) \notin Raised(barbell_positions)
                  /\ (i + 1) \notin Raised(barbell_positions))
              => Len(reps.reps) = 0

MaxTaps == 3

\* {!feedbackSubmitted && ( ... )}: the two buttons are on the screen.
FeedbackSectionShown(rs) == ~rs.feedbackSubmitted

\* disabled={submittingFeedback}
ButtonDisabled(rs) == rs.submittingFeedback

\* if (!mcsvmAnalysis || feedbackSubmitted || submittingFeedback) return;
GuardReturns(rs) ==
    rs.mcsvmAnalysis = NoAnalysis \/ rs.feedbackSubmitted \/ rs.submittingFeedback

\* Variant: the handler does not mark the submission as under way.
Submitting_Skipped(rs) == rs

\* setSubmittingFeedback(true)
Submitting(rs) == [rs EXCEPT !.submittingFeedback = TRUE]

\* What the await of PowerLiftAPI.submitFormFeedback leaves behind: on return
\* setFeedbackSubmitted(true), and in both cases setSubmittingFeedback(false).
Settled(rs, outcome) ==
    [rs EXCEPT !.feedbackSubmitted = (outcome = "succeeded") \/ @,
               !.submittingFeedback = FALSE]

PostsInFlight == {i \in DOMAIN posts : posts[i].status = "in_flight"}

PostsSucceeded == {i \in DOMAIN posts : posts[i].status = "succeeded"}

\* A press on "Yes, Correct" (isCorrect true) or "No, Incorrect" (false): a
\* disabled button swallows it, otherwise submitMcsvmFeedback(isCorrect) runs
\* to its await and the request is on its way.
press_feedback(isCorrect) ==
    /\ results_screen.taps < MaxTaps
    /\ FeedbackSectionShown(results_screen)
    /\ LET rs == [results_screen EXCEPT !.taps = @ + 1] IN
       IF ButtonDisabled(rs) \/ GuardReturns(rs)
       THEN /\ results_screen' = rs
            /\ UNCHANGED posts
       ELSE /\ results_screen' = Submitting(rs)
            /\ posts' = Append(posts,
                   [body |-> PostBody(feedbackData("c1", rs.mcsvmAnalysis,
                                                   isCorrect, Undefined)),
                    status |-> "in_flight",
                    overlapped |-> PostsInFlight /= {},
                    after_success |-> PostsSucceeded /= {}])
    /\ UNCHANGED <<base_vars, poll_vars>>

\* api.post('/feedback/form-classification', feedbackData) returns or throws,
\* and submitMcsvmFeedback resumes after its await.
submitFormFeedback_settle(i, outcome) ==
    /\ i \in PostsInFlight
    /\ posts' = [posts EXCEPT ![i].status = outcome]
    /\ results_screen' = Settled(results_screen, outcome)
    /\ UNCHANGED <<base_vars, poll_vars>>

\* The results screen of one classification result, or of an analysis that
\* carries none.
TapInit ==
    /\ StreamInit
    /\ RetrainIdle
    /\ FeedbackIdle
    /\ RepIdle
    /\ ScoreIdle
    /\ CaptureIdle
    /\ results_screen \in {NoFeedbackYet(a) : a \in mcsvmAnalyses \cup {NoAnalysis}}
    /\ posts = <<>>
    /\ video_ui = NoVideo
    /\ jobs = {}
    /\ poll_log = NothingPolled

TapNext ==
    \/ \E isCorrect \in {"true", "false"} : press_feedback(isCorrect)
    \/ \E i \in DOMAIN posts, outcome \in {"succeeded", "failed"} :
          submitFormFeedback_settle(i, outcome)

TapSpec == TapInit /\ [][TapNext]_vars

\* ------------------------------------------------ video screen: status polling
\* app/video-analysis.tsx.  The screen shows the buttons of its analysisState;
\* a modal lies over them while a warning flag is set.  Pickers, uploads,
\* status requests and the 2 s timers of checkStatus run on their own and come
\* back whenever they are done.
MaxPicks == 2
MaxUploads == 2
MaxPolls == 2
MaxResets == 2

\* exerciseType of the screen
expected_exercise_type == "deadlift"

\* What GET /analysis/<id> can answer; "throws" stands for a request that
\* fails, which checkAnalysisStatus rethrows.
StatusResponse(st, nb, det) ==
    [status |-> st, no_barbell_detected |-> nb, detected_exercise_type |-> det,
     expected_exercise_type |-> expected_exercise_type]

StatusResponses ==
    {StatusResponse("completed", nb, det) :
         nb \in BOOLEAN, det \in {"deadlift", "squat"}}
    \cup {StatusResponse("failed", FALSE, Null),
          StatusResponse("processing", FALSE, Null),
          StatusResponse("throws", FALSE, Null)}

\* response.analysis_id of the n-th upload
analysis_id(n) == <<"a1", "a2", "a3", "a4">>[n]

\* A picker (launching, then open), an upload, a status request or a timer of
\* checkStatus for analysis id, or viewResults on its way to router.replace.
Job(kind, id, n, phase) == [kind |-> kind, id |-> id, n |-> n, phase |-> phase]

\* <Modal visible={noBarbellDetected}> and <Modal visible={wrongExerciseDetected}>
ModalShown(v) == v.noBarbellDetected \/ v.wrongExerciseDetected

\* The native picker or camera covers the screen once it is open.
Covered == \E t \in jobs : t.kind \in {"picker", "camera"} /\ t.phase = "open"

\* The buttons of renderContent() can be pressed.
ContentPressable ==
    ~poll_log.replaced /\ ~Covered /\ ~ModalShown(video_ui)

\* The buttons of a warning modal can be pressed.
ModalPressable == ~poll_log.replaced /\ ~Covered /\ ModalShown(video_ui)

\* case 'completed' and case 'error' of renderContent() carry the button that
\* calls resetAnalysis.
ResetOffered(v) == v.analysisState \in {"completed", "error"}

\* A state setter of a screen that was replaced does nothing.
SetState(v) == IF poll_log.replaced THEN video_ui ELSE v

\* checkStatus after its await, for a response that is not 'processing':
\* 'completed', 'failed', or the catch block.
checkStatus_done(v, r) ==
    IF r.status = "completed"
    THEN LET d == [v EXCEPT !.analysisData = r] IN
         IF /\ r.detected_exercise_type /= Null
            /\ r.detected_exercise_type /= r.expected_exercise_type
         THEN [d EXCEPT !.detectedExerciseType = r.detected_exercise_type,
                        !.wrongExerciseDetected = TRUE]
         ELSE IF r.no_barbell_detected
              THEN [d EXCEPT !.noBarbellDetected = TRUE]
              ELSE [d EXCEPT !.analysisState = "completed"]
    ELSE IF r.status = "failed"
         THEN [v EXCEPT !.analysisState = "error"]
         ELSE [v EXCEPT !.analysisState = "error"]

\* What the polling of an analysis that was reset did: changed the state of
\* the screen, sent one more request.
LateEffect(id, v) ==
    IF id \in poll_log.was_reset /\ v /= video_ui
    THEN poll_log.late_effect \cup {id} ELSE poll_log.late_effect

LateRequest(id) ==
    IF id \in poll_log.was_reset
    THEN poll_log.late_request \cup {id} ELSE poll_log.late_request

\* "Change Video" / "Choose Existing Video" (pickVideo) or "Record New Video"
\* (recordVideo): the picker is asked for; it opens a little later.  One
\* picker is launched at a time.
pickVideo(kind) ==
    /\ ContentPressable
    /\ video_ui.analysisState = "idle"
    /\ kind = "camera" => video_ui.videoUri = Null
    /\ \A t \in jobs : t.kind \notin {"picker", "camera"}
    /\ poll_log.picks < MaxPicks
    /\ poll_log' = [poll_log EXCEPT !.picks = @ + 1]
    /\ jobs' = jobs \cup {Job(kind, Null, poll_log.picks + 1, "launching")}
    /\ UNCHANGED <<video_ui, base_vars, tap_vars>>

picker_open(t) ==
    /\ t \in jobs
    /\ t.kind \in {"picker", "camera"}
    /\ t.phase = "launching"
    /\ ~Covered
    /\ jobs' = (jobs \ {t}) \cup {[t EXCEPT !.phase = "open"]}
    /\ UNCHANGED <<video_ui, poll_log, base_vars, tap_vars>>

\* The picker returns: canceled, or with a video, and pickVideo then also
\* calls setAnalysisState('idle').
picker_result(t, canceled) ==
    /\ t \in jobs
    /\ t.kind \in {"picker", "camera"}
    /\ t.phase = "open"
    /\ jobs' = jobs \ {t}
    /\ video_ui' =
          IF canceled THEN video_ui
          ELSE SetState([video_ui EXCEPT
                  !.videoUri = "video",
                  !.analysisState = IF t.kind = "picker" THEN "idle" ELSE @])
    /\ UNCHANGED <<poll_log, base_vars, tap_vars>>

\* "Analyze Form": uploadVideo up to its await of PowerLiftAPI.uploadVideo.
uploadVideo ==
    /\ ContentPressable
    /\ video_ui.analysisState = "idle"
    /\ video_ui.videoUri /= Null
    /\ poll_log.uploads < MaxUploads
    /\ video_ui' = [video_ui EXCEPT !.analysisState = "uploading"]
    /\ poll_log' = [poll_log EXCEPT !.uploads = @ + 1]
    /\ jobs' = jobs \cup {Job("upload", Null, poll_log.uploads + 1, "sent")}
    /\ UNCHANGED <<base_vars, tap_vars>>

\* The upload returns with an analysis_id: setAnalysisId, 'processing',
\* pollAnalysisStatus(id) sends the first status request.  Or it throws.
upload_response(t, ok) ==
    /\ t \in jobs
    /\ t.kind = "upload"
    /\ IF ok
       THEN /\ video_ui' = SetState([video_ui EXCEPT !.analysisId = analysis_id(t.n),
                                                     !.analysisState = "processing"])
            /\ jobs' = (jobs \ {t}) \cup {Job("status", analysis_id(t.n), 1, "sent")}
       ELSE /\ video_ui' = SetState([video_ui EXCEPT !.analysisState = "error"])
            /\ jobs' = jobs \ {t}
    /\ UNCHANGED <<poll_log, base_vars, tap_vars>>

\* checkStatus resumes with the response: 'completed', 'failed' and a thrown
\* error end the polling, anything else sets the 2 s timer.
status_response(t, r) ==
    /\ t \in jobs
    /\ t.kind = "status"
    /\ r.status = "processing" => t.n < MaxPolls
    /\ IF r.status = "processing"
       THEN /\ jobs' = (jobs \ {t}) \cup {Job("timer", t.id, t.n, "set")}
            /\ UNCHANGED <<video_ui, poll_log>>
       ELSE /\ jobs' = jobs \ {t}
            /\ video_ui' = SetState(checkStatus_done(video_ui, r))
            /\ poll_log' = [poll_log EXCEPT !.late_effect =
                               LateEffect(t.id, SetState(checkStatus_done(video_ui, r)))]
    /\ UNCHANGED <<base_vars, tap_vars>>

\* setTimeout(checkStatus, 2000) fires: the next status request goes out.
checkStatus_timer(t) ==
    /\ t \in jobs
    /\ t.kind = "timer"
    /\ jobs' = (jobs \ {t}) \cup {Job("status", t.id, t.n + 1, "sent")}
    /\ poll_log' = [poll_log EXCEPT !.late_request = LateRequest(t.id)]
    /\ UNCHANGED <<video_ui, base_vars, tap_vars>>

\* resetAnalysis as called by the buttons
Reset(v) == NoVideo

\* "Analyze Another Video", "Try Again" of the error view, "Try Again" of a
\* warning modal: resetAnalysis().
resetAnalysis ==
    /\ \/ ContentPressable /\ ResetOffered(video_ui)
       \/ ModalPressable
    /\ poll_log.resets < MaxResets
    /\ video_ui' = Reset(video_ui)
    /\ poll_log' = [poll_log EXCEPT
                      !.resets = @ + 1,
                      !.was_reset = @ \cup ({video_ui.analysisId} \ {Null})]
    /\ UNCHANGED <<jobs, base_vars, tap_vars>>

\* onRequestClose of a warning modal
modal_close ==
    /\ ModalPressable
    /\ video_ui' = [video_ui EXCEPT !.noBarbellDetected = FALSE,
                                    !.wrongExerciseDetected = FALSE]
    /\ UNCHANGED <<jobs, poll_log, base_vars, tap_vars>>

\* "View Results", or "Continue Anyway" of a warning modal, which first calls
\* setAnalysisState('completed'): viewResults up to its first await.
viewResults ==
    /\ \/ ContentPressable /\ video_ui.analysisState = "completed"
       \/ ModalPressable
    /\ video_ui.analysisId /= Null
    /\ \A t \in jobs : t.kind /= "navigate"
    /\ video_ui' = [video_ui EXCEPT !.analysisState = "completed",
                                    !.noBarbellDetected = FALSE,
                                    !.wrongExerciseDetected = FALSE]
    /\ jobs' = jobs \cup {Job("navigate", video_ui.analysisId, 0, "set")}
    /\ UNCHANGED <<poll_log, base_vars, tap_vars>>

\* router.replace('/results'): the video screen is gone.
router_replace(t) ==
    /\ t \in jobs
    /\ t.kind = "navigate"
    /\ jobs' = jobs \ {t}
    /\ poll_log' = [poll_log EXCEPT !.replaced = TRUE]
    /\ UNCHANGED <<video_ui, base_vars, tap_vars>>

PollNext ==
    \/ \E kind \in {"picker", "camera"} : pickVideo(kind)
    \/ \E t \in jobs : picker_open(t)
    \/ \E t \in jobs, canceled \in BOOLEAN : picker_result(t, canceled)
    \/ uploadVideo
    \/ \E t \in jobs, ok \in BOOLEAN : upload_response(t, ok)
    \/ \E t \in jobs, r \in StatusResponses : status_response(t, r)
    \/ \E t \in jobs : checkStatus_timer(t)
    \/ resetAnalysis
    \/ modal_close
    \/ viewResults
    \/ \E t \in jobs : router_replace(t)

PollSpec == Init /\ [][PollNext]_vars

\* ---------------------------------------------------------------------
\* C21  Every ScoreSet has its four component scores and its overall score
\*      in [0,100], and its overall score is the sum of the four components
\*      weighted by its exercise's table: deadlift 0.2/0.35/0.25/0.2, squat
\*      0.3/0.25/0.25/0.2, bench 0.1/0.2/0.2/0.5 (knee/spine/hip/bar path).
WeightedSum(sc) ==
    IF sc.exercise_type = "deadlift"
       THEN 20 * sc.knee_alignment + 35 * sc.spine_alignment
            + 25 * sc.hip_stability + 20 * sc.bar_path_efficiency
    ELSE IF sc.exercise_type = "squat"
       THEN 30 * sc.knee_alignment + 25 * sc.spine_alignment
            + 25 * sc.hip_stability + 20 * sc.bar_path_efficiency
    ELSE 10 * sc.knee_alignment + 20 * sc.spine_alignment
         + 20 * sc.hip_stability + 50 * sc.bar_path_efficiency

C21_ScoreSetWeighted ==
    scores /= NoScores =>
       /\ scores.exercise_type \in ExerciseTypes
       /\ \A f \in {"knee_alignment", "spine_alignment", "hip_stability",
                    "bar_path_efficiency"} : scores[f] \in 0..100
       /\ scores.overall \in 0..10000
       /\ scores.overall = WeightedSum(scores)

\* Deadlift 95/60/80/90 with overall 78, and a component clamped at 0.
C21_Witness ==
    /\ scores /= NoScores
    /\ scores.exercise_type = "bench"
    /\ scores.knee_alignment = 0
    /\ scores.bar_path_efficiency = 100
    /\ scores.overall = 50 * 100 + 20 * scores.spine_alignment
                        + 20 * scores.hip_stability
    /\ scores.spine_alignment = 95

\* ---------------------------------------------------------------------
\* C22  The score-derived classifier labels a ScoreSet from its
\*      exercise-weighted overall score: 85 or more is Good, 70 to 84 is
\*      Needs Improvement, below 70 is Poor (deadlift 95/60/80/90 gives 78
\*      and Needs Improvement, bench 90/90/90/40 gives 65 and Poor).
C22_LabelFromWeightedOverall ==
    (scores /= NoScores /\ mcsvm_analysis /= NoAnalysis) =>
       mcsvm_analysis.classification =
          (IF scores.overall >= 8500 THEN "Good"
           ELSE IF scores.overall >= 7000 THEN "Needs Improvement"
           ELSE "Poor")

\* ---------------------------------------------------------------------
\* C23  For the score-derived classifier, whenever one overall score is
\*      strictly higher than another, its Good probability is not lower and
\*      its Poor probability is not higher.
C23_ProbabilitiesMonotonic ==
    (prev_analysis /= NoAnalysis /\ mcsvm_analysis /= NoAnalysis
       /\ mcsvm_analysis.overall_score > prev_analysis.overall_score) =>
       /\ mcsvm_analysis.probabilities["Good"]
             >= prev_analysis.probabilities["Good"]
       /\ mcsvm_analysis.probabilities["Poor"]
             <= prev_analysis.probabilities["Poor"]

\* ---------------------------------------------------------------------
\* C24  In every ClassificationResult the probabilities of the three labels
\*      sum to 1.0 and the chosen label has the largest probability.
C24_DistributionPeakedAtLabel ==
    mcsvm_analysis /= NoAnalysis =>
       LET p == mcsvm_analysis.probabilities
       IN  /\ p["Good"] + p["Needs Improvement"] + p["Poor"] = 100
           /\ \A l \in Labels : p[l] <= p[mcsvm_analysis.classification]
           /\ \A l \in Labels : p[l] >= 0

\* A Needs Improvement result whose rest of 29 does not halve evenly.
C24_Witness ==
    /\ mcsvm_analysis /= NoAnalysis
    /\ mcsvm_analysis.classification = "Needs Improvement"
    /\ mcsvm_analysis.probabilities["Needs Improvement"] = 71
    /\ mcsvm_analysis.probabilities["Good"] = 14
    /\ mcsvm_analysis.probabilities["Poor"] = 15

\* ---------------------------------------------------------------------
\* C25  The producer throttles capture to the frames-per-second budget:
\*      while an analysis is active, each next capture is scheduled one frame
\*      interval (1000 / TARGET_FPS ms, TARGET_FPS 5 or 6) after the previous
\*      frame was sent.
C25_NextCaptureAfterFrameInterval ==
    \A d \in capture_log.delays : d = 1000 \div TARGET_FPS(screen)

\* ---------------------------------------------------------------------
\* C26  When the client stops a real-time analysis, the final summary the
\*      server emits in reply (analysis_complete) is still handled by the
\*      client: its listener is registered when that event arrives.
C26_CompleteHandled ==
    screen = "realtime" => capture_log.complete /= "dropped"

\* ---------------------------------------------------------------------
\* C27  After stopAnalysis the capture loop ends: no capture callback that
\*      was scheduled before the stop goes on to take a picture, emit a frame
\*      to the server, or schedule another capture.
C27_LoopEndsAtStop ==
    capture_log.after_stop = {}

\* ---------------------------------------------------------------------
\* C28  On the real-time screen, once startAnalysis has passed its guards a
\*      frame capture is attempted: the screen never stays in the analysing
\*      state with no capture taken or scheduled.
C28_CaptureAttempted ==
    (/\ screen = "realtime"
     /\ ui.isAnalyzing
     /\ rendered.isAnalyzing
     /\ \A t \in pending : t.fn /= "startAnalysis") =>
       \/ capture_log.captured
       \/ \E t \in pending : t.fn \in CaptureFns /\ ~t.stale

\* C29: for one classification result, whatever the presses on the feedback
\* buttons and whenever they come, a feedback request is never sent while
\* another one is in flight, and none is sent after one has succeeded.
C29_OneFeedbackRequest ==
    /\ Cardinality(PostsInFlight) <= 1
    /\ \A i \in DOMAIN posts : ~posts[i].overlapped /\ ~posts[i].after_success
    /\ Cardinality(PostsSucceeded) <= 1

\* A request failed, the next one succeeded, and a press that came while a
\* request was in flight sent nothing.
C29_Witness ==
    /\ Len(posts) = 2
    /\ posts[1].status = "failed"
    /\ posts[2].status = "succeeded"
    /\ results_screen.taps > Len(posts)

\* C30: once the user has reset an analysis, its status polling does nothing
\* more: no response for its id changes analysisState, analysisData or the
\* warning flags, and no further status request is sent for that id.
C30_ResetEndsPolling ==
    /\ poll_log.late_effect = {}
    /\ poll_log.late_request = {}

====
